---- MODULE Spec2Model ----
(***************************************************************************)
(* A model of the bootstrap node of alx696/go-libp2p-bootstrap             *)
(* (src/main.go).  The program is one function, main, plus one goroutine   *)
(* (the peer-count reporter).  The model follows main statement by         *)
(* statement: pc is the statement main is about to execute.  Library calls *)
(* that return an error are nondeterministic between their outcomes.  The  *)
(* key file outlives the process, so the model lets the process be started *)
(* again after it has exited.                                              *)
(***************************************************************************)
EXTENDS Integers, Sequences, FiniteSets

\* ------------------------------------------------------------- bounds
MaxRuns == 2        \* process starts over the same directory
MaxKey == 2         \* distinct private keys GenerateKeyPair may return
MaxPeers == 1       \* remote peers besides the bootstrap peer

\* ------------------------------------------------- program constants
KeyTypeEd25519 == 1       \* crypto.Ed25519, the key type tag of the encoding
BootstrapTimeout == 16    \* time.Second*16
BootstrapPeer == 0        \* the peer of the hardcoded multiaddr

NoKey == 0
NoFile == [exists |-> FALSE, bytes |-> <<>>]
File(b) == [exists |-> TRUE, bytes |-> b]
Keys == 1..MaxKey
RemotePeers == 1..MaxPeers
AllPeers == {BootstrapPeer} \cup RemotePeers

VARIABLES
    run,              \* number of the current process start
    pc,               \* the statement main executes next
    exitKind,         \* how the process ended: none, fatal, clean, killed
    fatalAt,          \* the statement whose error log.Fatalln reported
    keyFile,          \* contents of private.key, or NoFile
    firstKey,         \* history: the key of the first completed WriteFile
    statResult,       \* e of os.Stat: ok, notexist, other
    privateKey,       \* privateKey
    privateKeyBytes,  \* privateKeyBytes
    identityVia,      \* none, generated, loaded
    ctxDone,          \* ctx has been cancelled
    hostUp,           \* h and its background tasks are running
    dials,            \* calls of h.Connect in this run
    dialElapsed,      \* seconds since lc was created
    connectResult,    \* e of h.Connect: none, ok, err
    peers,            \* h.Peerstore().Peers()
    conns,            \* peers with a connection the connection manager tracks
    rpc,              \* the reporter goroutine: none, init, select, returned
    tickPending,      \* a tick waits in ticker.C (capacity 1)
    lastReport,       \* the count of the last report, -1 before any
    handlerOn,        \* signal.Notify has been called
    signalChan,       \* signals waiting in signalChan (capacity 1)
    signalledAt,      \* history: where main was when the first signal came
    shutdownLogged    \* the shutdown line has been logged

fileVars == <<keyFile, firstKey>>
idVars == <<statResult, privateKey, privateKeyBytes, identityVia>>
netVars == <<hostUp, dials, dialElapsed, connectResult, peers, conns>>
repVars == <<rpc, tickPending, lastReport>>
sigVars == <<handlerOn, signalChan, signalledAt, shutdownLogged>>
mainVars == <<run, pc, exitKind, fatalAt>>
vars == <<mainVars, fileVars, idVars, ctxDone, netVars, repVars, sigVars>>

\* ------------------------------------------------------ key encoding
\* crypto.MarshalPrivateKey: a type tag followed by the key data.
MarshalPrivateKey(k) == <<KeyTypeEd25519, k>>

\* crypto.UnmarshalPrivateKey: NoKey stands for a non-nil error.
UnmarshalPrivateKey(b) ==
    IF Len(b) = 2 /\ b[1] = KeyTypeEd25519 /\ b[2] \in Keys THEN b[2] ELSE NoKey

\* What a failed ioutil.WriteFile of b may leave behind: the file cut short
\* (the write failed after the file was created and truncated).
PartialWrites(b) == {File(SubSeq(b, 1, n)) : n \in 0..(Len(b) - 1)}

\* ------------------------------------------------------------ start
ProcessStart ==
    /\ pc = "stat"
    /\ exitKind = "none"
    /\ fatalAt = "none"
    /\ statResult = "none"
    /\ privateKey = NoKey
    /\ privateKeyBytes = <<>>
    /\ identityVia = "none"
    /\ ctxDone = FALSE
    /\ hostUp = FALSE
    /\ dials = 0
    /\ dialElapsed = 0
    /\ connectResult = "none"
    /\ peers = {}
    /\ conns = {}
    /\ rpc = "none"
    /\ tickPending = FALSE
    /\ lastReport = -1
    /\ handlerOn = FALSE
    /\ signalChan = 0
    /\ signalledAt = "none"
    /\ shutdownLogged = FALSE

Init ==
    /\ run = 1
    /\ keyFile = NoFile
    /\ firstKey = NoKey
    /\ ProcessStart

Alive == pc # "exited"

\* log.Fatalln(e): logs and calls os.Exit(1); deferred calls do not run.
Fatal(at) ==
    /\ pc' = "exited"
    /\ exitKind' = "fatal"
    /\ fatalAt' = at
    /\ UNCHANGED run

Goto(next) ==
    /\ pc' = next
    /\ UNCHANGED <<run, exitKind, fatalAt>>

\* ---------------------------------------------------------- identity
\* Any error of os.Stat taken for the file's absence (e != nil).
StatFailed(res) == res # "ok"

\* os.IsNotExist(e)
IsNotExist(res) == res = "notexist"

\* _, e = os.Stat(privateKeyPath); the branch on os.IsNotExist(e).
Stat ==
    /\ pc = "stat"
    /\ \E res \in (IF keyFile.exists THEN {"ok", "other"} ELSE {"notexist", "other"}) :
          /\ statResult' = res
          /\ Goto(IF IsNotExist(res) THEN "generate" ELSE "read")
    /\ UNCHANGED <<fileVars, privateKey, privateKeyBytes, identityVia, ctxDone,
                   netVars, repVars, sigVars>>

\* privateKey, _, e = crypto.GenerateKeyPair(crypto.Ed25519, -1)
GenerateKeyPair ==
    /\ pc = "generate"
    /\ \/ \E k \in Keys : privateKey' = k /\ Goto("marshal")
       \/ Fatal("generate") /\ UNCHANGED privateKey
    /\ UNCHANGED <<fileVars, statResult, privateKeyBytes, identityVia, ctxDone,
                   netVars, repVars, sigVars>>

\* privateKeyBytes, e = crypto.MarshalPrivateKey(privateKey)
Marshal ==
    /\ pc = "marshal"
    /\ \/ privateKeyBytes' = MarshalPrivateKey(privateKey) /\ Goto("write")
       \/ Fatal("marshal") /\ UNCHANGED privateKeyBytes
    /\ UNCHANGED <<fileVars, statResult, privateKey, identityVia, ctxDone,
                   netVars, repVars, sigVars>>

\* e = ioutil.WriteFile(privateKeyPath, privateKeyBytes, os.ModePerm)
WriteFile ==
    /\ pc = "write"
    /\ \/ /\ keyFile' = File(privateKeyBytes)
          /\ firstKey' = IF firstKey = NoKey THEN privateKey ELSE firstKey
          /\ identityVia' = "generated"
          /\ Goto("new")
       \/ /\ keyFile' \in {keyFile} \cup PartialWrites(privateKeyBytes)
          /\ Fatal("write")
          /\ UNCHANGED <<firstKey, identityVia>>
    /\ UNCHANGED <<statResult, privateKey, privateKeyBytes, ctxDone,
                   netVars, repVars, sigVars>>

\* privateKeyBytes, e = ioutil.ReadFile(privateKeyPath)
ReadFile ==
    /\ pc = "read"
    /\ \/ /\ keyFile.exists
          /\ privateKeyBytes' = keyFile.bytes
          /\ Goto("unmarshal")
       \/ Fatal("read") /\ UNCHANGED privateKeyBytes
    /\ UNCHANGED <<fileVars, statResult, privateKey, identityVia, ctxDone,
                   netVars, repVars, sigVars>>

\* privateKey, e = crypto.UnmarshalPrivateKey(privateKeyBytes)
Unmarshal ==
    /\ pc = "unmarshal"
    /\ IF UnmarshalPrivateKey(privateKeyBytes) # NoKey
       THEN /\ privateKey' = UnmarshalPrivateKey(privateKeyBytes)
            /\ identityVia' = "loaded"
            /\ Goto("new")
       ELSE /\ Fatal("unmarshal")
            /\ UNCHANGED <<privateKey, identityVia>>
    /\ UNCHANGED <<fileVars, statResult, privateKeyBytes, ctxDone,
                   netVars, repVars, sigVars>>

\* ----------------------------------------------------------- startup
\* h, e := libp2p.New(ctx, ...): the host and its background tasks (listeners,
\* connection manager, NAT port mapping, DHT, auto relay) run under ctx.
NewHost ==
    /\ pc = "new"
    /\ \/ hostUp' = TRUE /\ Goto("addrs")
       \/ Fatal("new") /\ UNCHANGED hostUp
    /\ UNCHANGED <<fileVars, idVars, ctxDone, dials, dialElapsed, connectResult, peers, conns,
                   repVars, sigVars>>

\* myAddrs, e := peer.AddrInfoToP2pAddrs(...)
MyAddrs ==
    /\ pc = "addrs"
    /\ \/ Goto("autonat")
       \/ Fatal("addrs")
    /\ UNCHANGED <<fileVars, idVars, ctxDone, netVars, repVars, sigVars>>

\* _, e = autonat.New(ctx, h)
AutoNAT ==
    /\ pc = "autonat"
    /\ \/ Goto("parse")
       \/ Fatal("autonat")
    /\ UNCHANGED <<fileVars, idVars, ctxDone, netVars, repVars, sigVars>>

\* multiaddr.NewMultiaddr(...) and peer.AddrInfoFromP2pAddr(multiAddr)
ParseTarget ==
    /\ pc = "parse"
    /\ \/ Goto("connect")
       \/ Fatal("parse")
    /\ UNCHANGED <<fileVars, idVars, ctxDone, netVars, repVars, sigVars>>

\* ---------------------------------------------------------- bootstrap
\* A dial bound to a context of ctx without the timeout: it may go on after
\* the 16 seconds.
DialDeadlineMissing == BootstrapTimeout + 1

\* lc, lcCancel := context.WithTimeout(ctx, time.Second*16): the second at
\* which lc is done.
DialDeadline == BootstrapTimeout

\* e = h.Connect(lc, *addrInfo) is called.
Connect ==
    /\ pc = "connect"
    /\ dials' = dials + 1
    /\ dialElapsed' = 0
    /\ Goto("dialing")
    /\ UNCHANGED <<fileVars, idVars, ctxDone, hostUp, connectResult, peers, conns,
                   repVars, sigVars>>

\* A second passes while h.Connect is blocked; lc is done at DialDeadline.
DialWait ==
    /\ pc = "dialing"
    /\ dialElapsed < DialDeadline
    /\ dialElapsed' = dialElapsed + 1
    /\ UNCHANGED <<mainVars, fileVars, idVars, ctxDone, hostUp, dials, connectResult,
                   peers, conns, repVars, sigVars>>

\* h.Connect returns nil: the bootstrap peer is connected (before lc is done).
ConnectOk ==
    /\ pc = "dialing"
    /\ dialElapsed < DialDeadline
    /\ peers' = peers \cup {BootstrapPeer}
    /\ conns' = conns \cup {BootstrapPeer}
    /\ connectResult' = "ok"
    /\ Goto("spawn")
    /\ UNCHANGED <<fileVars, idVars, ctxDone, hostUp, dials, dialElapsed, repVars, sigVars>>

\* The error of h.Connect is not checked: main goes on.
ConnectErrIgnored ==
    /\ pc = "dialing"
    /\ connectResult' = "err"
    /\ Goto("spawn")
    /\ UNCHANGED <<fileVars, idVars, ctxDone, hostUp, dials, dialElapsed, peers, conns,
                   repVars, sigVars>>

\* h.Connect returns an error (a failed dial, or lc done); log.Fatalln(e).
ConnectErr ==
    /\ pc = "dialing"
    /\ connectResult' = "err"
    /\ Fatal("connect")
    /\ UNCHANGED <<fileVars, idVars, ctxDone, hostUp, dials, dialElapsed, peers, conns,
                   repVars, sigVars>>

\* -------------------------------------------------- running, shutdown
\* go func() { ... }()
Spawn ==
    /\ pc = "spawn"
    /\ rpc' = "init"
    /\ Goto("notify")
    /\ UNCHANGED <<fileVars, idVars, ctxDone, netVars, tickPending, lastReport, sigVars>>

\* signalChan := make(chan os.Signal, 1); signal.Notify(signalChan, SIGINT, SIGTERM)
Notify ==
    /\ pc = "notify"
    /\ handlerOn' = TRUE
    /\ Goto("wait")
    /\ UNCHANGED <<fileVars, idVars, ctxDone, netVars, repVars, signalChan,
                   signalledAt, shutdownLogged>>

\* <-signalChan
WaitSignal ==
    /\ pc = "wait"
    /\ signalChan > 0
    /\ signalChan' = signalChan - 1
    /\ Goto("log")
    /\ UNCHANGED <<fileVars, idVars, ctxDone, netVars, repVars, handlerOn,
                   signalledAt, shutdownLogged>>

\* log.Println("收到信号, 关闭程序")
LogShutdown ==
    /\ pc = "log"
    /\ shutdownLogged' = TRUE
    /\ Goto("return")
    /\ UNCHANGED <<fileVars, idVars, ctxDone, netVars, repVars, handlerOn,
                   signalChan, signalledAt>>

\* Without the deferred call ctx stays as it is when main returns.
CtxNotCancelledOnReturn == ctxDone

\* defer ctxCancel(): ctx is done once main's deferred calls have run.
CtxAfterDefers == TRUE

\* main returns: the deferred lcCancel and ctxCancel run.
Return ==
    /\ pc = "return"
    /\ ctxDone' = CtxAfterDefers
    /\ Goto("returned")
    /\ UNCHANGED <<fileVars, idVars, netVars, repVars, sigVars>>

\* main has returned: the runtime exits the process; goroutines are not
\* waited for.
ProcessExit ==
    /\ pc = "returned"
    /\ pc' = "exited"
    /\ exitKind' = "clean"
    /\ UNCHANGED <<run, fatalAt, fileVars, idVars, ctxDone, netVars, repVars, sigVars>>

\* SIGINT or SIGTERM is sent to the process.  After signal.Notify it is put
\* into signalChan (dropped if the channel is full); before, the runtime's
\* default handling ends the process at once.
Signal ==
    /\ Alive
    /\ signalledAt' = IF signalledAt = "none" THEN pc ELSE signalledAt
    /\ IF handlerOn
       THEN /\ signalChan' = 1
            /\ UNCHANGED mainVars
       ELSE /\ pc' = "exited"
            /\ exitKind' = "killed"
            /\ UNCHANGED <<run, fatalAt, signalChan>>
    /\ UNCHANGED <<fileVars, idVars, ctxDone, netVars, repVars, handlerOn, shutdownLogged>>

\* ----------------------------------------------------------- reporter
\* The count of connections the connection manager tracks, were it reported.
TrackedCount == Cardinality(conns)

\* len(h.Peerstore().Peers())
PeerCount == Cardinality(peers)

\* ticker := time.NewTicker(time.Second * 10); the goroutine enters its loop.
ReporterInit ==
    /\ Alive
    /\ rpc = "init"
    /\ rpc' = "select"
    /\ UNCHANGED <<mainVars, fileVars, idVars, ctxDone, netVars, tickPending,
                   lastReport, sigVars>>

\* Ten seconds have passed on the ticker (it is never stopped): a tick is
\* put into ticker.C, or dropped if one waits there.
Tick ==
    /\ Alive
    /\ rpc \in {"select", "returned"}
    /\ tickPending' = TRUE
    /\ UNCHANGED <<mainVars, fileVars, idVars, ctxDone, netVars, rpc, lastReport, sigVars>>

\* case <-ticker.C: log.Println("节点数量", len(h.Peerstore().Peers()))
ReporterReport ==
    /\ Alive
    /\ rpc = "select"
    /\ tickPending
    /\ tickPending' = FALSE
    /\ lastReport' = PeerCount
    /\ UNCHANGED <<mainVars, fileVars, idVars, ctxDone, netVars, rpc, sigVars>>

\* case <-ctx.Done(): return
ReporterDone ==
    /\ Alive
    /\ rpc = "select"
    /\ ctxDone
    /\ rpc' = "returned"
    /\ UNCHANGED <<mainVars, fileVars, idVars, ctxDone, netVars, tickPending,
                   lastReport, sigVars>>

\* ------------------------------------------------- the host's network
\* The DHT learns of a peer: a record in the peerstore, no connection.
PeerLearned(p) ==
    /\ Alive /\ hostUp
    /\ p \notin peers
    /\ peers' = peers \cup {p}
    /\ UNCHANGED <<mainVars, fileVars, idVars, ctxDone, hostUp, dials, dialElapsed,
                   connectResult,
                   conns, repVars, sigVars>>

\* A connection with p is established and tracked.
PeerConnected(p) ==
    /\ Alive /\ hostUp
    /\ p \notin conns
    /\ conns' = conns \cup {p}
    /\ peers' = peers \cup {p}
    /\ UNCHANGED <<mainVars, fileVars, idVars, ctxDone, hostUp, dials, dialElapsed,
                   connectResult,
                   repVars, sigVars>>

\* The connection with p closes (by the peer, or pruned); its record stays.
PeerDisconnected(p) ==
    /\ Alive /\ hostUp
    /\ p \in conns
    /\ conns' = conns \ {p}
    /\ UNCHANGED <<mainVars, fileVars, idVars, ctxDone, hostUp, dials, dialElapsed,
                   connectResult,
                   peers, repVars, sigVars>>

\* The host's tasks see ctx done and stop (libp2p.New(ctx, ...)).
HostStop ==
    /\ Alive /\ hostUp
    /\ ctxDone
    /\ hostUp' = FALSE
    /\ conns' = {}
    /\ UNCHANGED <<mainVars, fileVars, idVars, ctxDone, dials, dialElapsed, connectResult, peers,
                   repVars, sigVars>>

\* ------------------------------------------------------------ restart
\* The program is started again in the same directory.
Restart ==
    /\ pc = "exited"
    /\ run < MaxRuns
    /\ run' = run + 1
    /\ pc' = "stat"
    /\ exitKind' = "none"
    /\ fatalAt' = "none"
    /\ statResult' = "none"
    /\ privateKey' = NoKey
    /\ privateKeyBytes' = <<>>
    /\ identityVia' = "none"
    /\ ctxDone' = FALSE
    /\ hostUp' = FALSE
    /\ dials' = 0
    /\ dialElapsed' = 0
    /\ connectResult' = "none"
    /\ peers' = {}
    /\ conns' = {}
    /\ rpc' = "none"
    /\ tickPending' = FALSE
    /\ lastReport' = -1
    /\ handlerOn' = FALSE
    /\ signalChan' = 0
    /\ signalledAt' = "none"
    /\ shutdownLogged' = FALSE
    /\ UNCHANGED fileVars

Next ==
    \/ Stat
    \/ GenerateKeyPair
    \/ Marshal
    \/ WriteFile
    \/ ReadFile
    \/ Unmarshal
    \/ NewHost
    \/ MyAddrs
    \/ AutoNAT
    \/ ParseTarget
    \/ Connect
    \/ DialWait
    \/ ConnectOk
    \/ ConnectErr
    \/ Spawn
    \/ Notify
    \/ WaitSignal
    \/ LogShutdown
    \/ Return
    \/ ProcessExit
    \/ Signal
    \/ ReporterInit
    \/ Tick
    \/ ReporterReport
    \/ ReporterDone
    \/ \E p \in AllPeers : PeerLearned(p)
    \/ \E p \in AllPeers : PeerConnected(p)
    \/ \E p \in AllPeers : PeerDisconnected(p)
    \/ HostStop
    \/ Restart

Spec == Init /\ [][Next]_vars

\* ---------------------------------------------------------- lifecycle
StartingPcs == {"stat", "generate", "marshal", "write", "read", "unmarshal", "new",
                "addrs", "autonat", "parse", "connect", "dialing", "spawn"}

\* The lifecycle state main is in: Running from the start of the reporter
\* until the signal is received, Stopping until the process has exited.
Lifecycle ==
    CASE pc \in StartingPcs -> "Starting"
      [] pc \in {"notify", "wait"} -> "Running"
      [] pc \in {"log", "return", "returned"} -> "Stopping"
      [] OTHER -> "Stopped"

LifecycleEdges ==
    {<<"Starting", "Running">>, <<"Running", "Stopping">>, <<"Stopping", "Stopped">>,
     <<"Starting", "Stopped">>, <<"Stopped", "Starting">>}

\* C4: Running is entered only with the identity resolved, the host built
\* and the bootstrap connect succeeded; a failed startup step ends the
\* process with a fatal error, the reporter never started and no signal
\* handler registered, and a fatal error comes from a startup step only.
\* Every step of main that is not the runtime ending the process on an
\* unhandled signal follows Starting -> Running -> Stopping -> Stopped
\* (or Starting -> Stopped).
RunningOnlyAfterStartup ==
    /\ [](/\ Lifecycle = "Running" =>
               /\ privateKey # NoKey
               /\ identityVia # "none"
               /\ hostUp
               /\ connectResult = "ok"
               /\ rpc # "none"
          /\ connectResult = "err" => pc = "exited"
          /\ exitKind = "fatal" =>
               /\ pc = "exited"
               /\ fatalAt \in StartingPcs
               /\ rpc = "none"
               /\ ~handlerOn
               /\ ~shutdownLogged)
    /\ [][(Lifecycle' # Lifecycle /\ exitKind' # "killed") =>
              <<Lifecycle, Lifecycle'>> \in LifecycleEdges]_vars

\* C4 witness: identity and host were fine, the bootstrap connect failed,
\* and the process is Stopped by the fatal error.
FatalAtBootstrap ==
    /\ pc = "exited" /\ exitKind = "fatal" /\ fatalAt = "connect"
    /\ privateKey # NoKey /\ hostUp /\ rpc = "none"

\* C5 as claimed: whenever a termination signal has come and the process
\* has exited, ctx was cancelled and the shutdown line was logged, wherever
\* main was when the signal came.
SignalAlwaysGraceful ==
    (pc = "exited" /\ signalledAt # "none") => (ctxDone /\ shutdownLogged)

\* C5 amended: a signal that comes while main waits on signalChan (the
\* handler is registered) leads to an exit with ctx cancelled and the
\* shutdown line logged; a signal that comes earlier ends the process at
\* once, ctx not cancelled and nothing logged.
SignalGracefulOnceNotified ==
    /\ (pc = "exited" /\ signalledAt = "wait") =>
          (exitKind = "clean" /\ ctxDone /\ shutdownLogged)
    /\ (signalledAt \notin {"none", "wait"}) =>
          (pc = "exited" /\ exitKind = "killed" /\ ~ctxDone /\ ~shutdownLogged)
    /\ shutdownLogged => signalledAt = "wait"

\* C5 witness: the signal came while main waited, and the process has exited.
GracefulExit ==
    pc = "exited" /\ signalledAt = "wait" /\ exitKind = "clean" /\ shutdownLogged

\* C6 as claimed: when the process has exited after ctx was cancelled, the
\* reporter goroutine has returned and the host's tasks have stopped.
TasksStoppedBeforeExit ==
    (pc = "exited" /\ ctxDone) => (rpc \in {"none", "returned"} /\ ~hostUp)

\* C7: h.Connect is called at most once per start; while it is blocked no
\* more than the 16 seconds have passed; it succeeds only before they have;
\* an error it returns ends the process with a fatal error, no second dial.
BootstrapBounded ==
    /\ dials <= 1
    /\ pc = "dialing" => dialElapsed <= BootstrapTimeout
    /\ connectResult = "ok" => dialElapsed < BootstrapTimeout
    /\ connectResult = "err" =>
          /\ pc = "exited" /\ exitKind = "fatal" /\ fatalAt = "connect"
          /\ dials = 1
          /\ dialElapsed <= BootstrapTimeout

\* C7 witness: the dial lasted the whole timeout and returned an error.
BootstrapTimedOut ==
    pc = "exited" /\ connectResult = "err" /\ dialElapsed = BootstrapTimeout

\* C8: a start that finds no key file and resolves its identity has written
\* the encoding of the key it generated; a start that loads the key file
\* obtains the key that was first generated and written; a file written
\* completely never fails to decode; no step changes a key file that exists.
IdentityIdempotent ==
    /\ [](identityVia = "loaded" => (firstKey # NoKey /\ privateKey = firstKey))
    /\ [](fatalAt = "unmarshal" => firstKey = NoKey)
    /\ [](identityVia = "generated" => keyFile = File(MarshalPrivateKey(privateKey)))
    /\ [][keyFile.exists => keyFile' = keyFile]_vars

\* C8 witness: a later start has loaded the key an earlier start generated.
LoadedOnRestart ==
    run > 1 /\ identityVia = "loaded" /\ privateKey = firstKey /\ privateKey # NoKey

\* C9 as claimed: no failure of the NAT traversal set-up is fatal.
NatFailureNotFatal ==
    ~(exitKind = "fatal" /\ fatalAt = "autonat")

\* The reporter took a tick from ticker.C and logged its line.
Reported == Alive /\ tickPending /\ ~tickPending'

\* C10 as claimed: every report is the count of the peers the connection
\* manager tracks, and none is made before Running.
ReportsTrackedCount ==
    /\ [][Reported => lastReport' = TrackedCount]_vars
    /\ [](lastReport # -1 => Lifecycle # "Starting")

\* C10 amended: every report is the number of peers in the peerstore when
\* the reporter handles the tick (connected or not), and none is made
\* before Running.
ReportsPeerstoreCount ==
    /\ [][Reported => lastReport' = Cardinality(peers)]_vars
    /\ [](lastReport # -1 => (Lifecycle # "Starting" /\ connectResult = "ok"))

\* C10 witness: a report made while Running counts a peer that is known
\* and not connected.
ReportedUnconnectedPeer ==
    /\ Lifecycle = "Running"
    /\ lastReport = Cardinality(peers)
    /\ lastReport > Cardinality(conns)

====
